---- MODULE Spec2Model ----
(***************************************************************************)
(* Car-Damage-Visualiser: the Gemini service (response extraction and      *)
(* JSON parsing), the cost panel's totals, the App orchestrator            *)
(* (handleAnalyze / handleStartOver / renderContent) and the narration of  *)
(* the cost panel (handlePlayDiagnosis, textToSpeech, Audio elements).     *)
(*                                                                         *)
(* Strings built by template literals are sequences of fragments, so that  *)
(* "the message contains X" is a statement about a subsequence.  A text    *)
(* part of a model response is a sequence of lexemes (Tokens below).       *)
(***************************************************************************)
EXTENDS Integers, Sequences, FiniteSets, TLC

VARIABLES
    response,         \* service run: the GenerateContentResponse handed to both services
    analysisOutcome,  \* service run: settled result of generateDamageAnalysis(response)
    previewOutcome,   \* service run: settled result of generateRepairedPreview(response)
    payload,          \* fence run: the JSON payload P
    fencedOutcome,    \* fence run: generateDamageAnalysis on P inside a json code fence
    rawOutcome,       \* fence run: generateDamageAnalysis on P as it is
    panelCosts,       \* panel run: the costs prop of CostEstimationPanel
    panelView,        \* panel run: what the component body computed
    originalImage,    \* App state: null or {file, url}
    annotatedImage,   \* App state: null or a data URL
    repairedImage,    \* App state: null or a data URL
    costData,         \* App state: null, or what analysis.costs was
    vehicleInfo,      \* App state: null, or what analysis.vehicle was
    isLoading,        \* App state
    error,            \* App state: null or a message
    calls,            \* the handleAnalyze invocations so far: file, the two promises, the
                      \* order in which they settled, and whether the handler has returned
    liveUrls,         \* object URLs created by URL.createObjectURL and not yet revoked
    rendered,         \* the render React committed last: the branch of renderContent on
                      \* screen and the originalImage its closures and effect captured
    panelProps,       \* narration run: props of the mounted CostEstimationPanel, or null
    sessions,         \* narration run: how many panel instances were mounted so far
    playbackState,    \* narration run: state of the mounted panel instance
    audioPlayer,      \* narration run: state of the mounted panel instance, null or the
                      \* index in audios of the cached Audio element
    panelCommitted,   \* narration run: playbackState and audioPlayer of the render of the
                      \* panel React committed last (what handlePlayDiagnosis closes over
                      \* and what the disabled attribute of the play button was made from)
    ttsRequests,      \* narration run: the textToSpeech calls so far
    audios,           \* narration run: the Audio elements created so far
    audioUrls,        \* narration run: object URLs of audio blobs created and not revoked
    startImageFile,   \* start screen run: imageFile of StartScreen, null or a File
    imagePreview,     \* start screen run: imagePreview, null or the data URL of a file
    startDescription, \* start screen run: description of StartScreen
    startError,       \* start screen run: error of StartScreen, null or a translation key
    readers,          \* start screen run: files a FileReader is still reading
    analyzeRequests,  \* start screen run: the calls of onAnalyze so far
    summaryProps,     \* summary run: the costs and vehicle props of the panel
    summaryResult     \* summary run: what generateDiagnosisSummary returned

serviceVars == <<response, analysisOutcome, previewOutcome>>
fenceVars == <<payload, fencedOutcome, rawOutcome>>
panelVars == <<panelCosts, panelView>>
appState == <<originalImage, annotatedImage, repairedImage, costData, vehicleInfo, isLoading, error>>
appVars == <<appState, calls, liveUrls, rendered>>
narrationVars ==
    <<panelProps, sessions, playbackState, audioPlayer, panelCommitted, ttsRequests, audios,
      audioUrls>>
startVars ==
    <<startImageFile, imagePreview, startDescription, startError, readers, analyzeRequests>>
summaryVars == <<summaryProps, summaryResult>>
vars == <<serviceVars, fenceVars, panelVars, appVars, narrationVars, startVars, summaryVars>>

----------------------------------------------------------------------------
(* Bounds *)

MaxParts == 2        \* parts in candidates[0].content.parts
MaxPayloadLen == 3   \* lexemes in the payload of a fence run
MaxCosts == 2        \* items in the cost list of a panel run
MaxCalls == 2        \* handleAnalyze invocations in one run of the App
MaxSessions == 2     \* CostEstimationPanel instances mounted in one narration run
MaxRequests == 2     \* textToSpeech calls in one narration run
MaxSubmits == 2      \* calls of onAnalyze in one start screen run

----------------------------------------------------------------------------
(* JavaScript values *)

Undefined == [type |-> "undefined"]
Null == [type |-> "null"]
Num(n) == [type |-> "number", n |-> n]
\* a number with a fraction, n + tenths/10
Frac(n, tenths) == [type |-> "number", n |-> n, tenths |-> tenths]
\* the tenths of a number, 0 for a whole number
Tenths(v) == IF "tenths" \in DOMAIN v THEN v.tenths ELSE 0
\* a string, as the sequence of its fragments; the empty string is <<>>
Str(s) == [type |-> "string", s |-> s]
Arr(items) == [type |-> "array", items |-> items]
Obj(fields) == [type |-> "object", fields |-> fields]
NoFields == [k \in {} |-> Null]

\* ToBoolean, as used by !analysis, !annotatedImage, cost.costUSD || 0
Truthy(v) ==
    CASE v.type \in {"undefined", "null"} -> FALSE
      [] v.type = "number" -> v.n # 0
      [] v.type = "string" -> v.s # <<>>
      [] OTHER -> TRUE

\* property read v.key on a non-nullish value: own field of an object,
\* undefined on arrays and primitives
Get(v, key) ==
    IF v.type = "object" /\ key \in DOMAIN v.fields THEN v.fields[key] ELSE Undefined

----------------------------------------------------------------------------
(* Promise outcomes *)

Pending == [status |-> "pending"]
Fulfilled(v) == [status |-> "fulfilled", value |-> v]
Rejected(m) == [status |-> "rejected", message |-> m]

----------------------------------------------------------------------------
(* Domain data carried by the JSON text part (types.ts) *)

VehicleA == Obj([make |-> "Toyota", model |-> "RAV4", year |-> "2020"])
VehicleNoYear == Obj([make |-> "Toyota", model |-> "RAV4"])

ItemBumper ==
    [part |-> "bumper", damage |-> "dented", suggestion |-> "Repair",
     costUSD |-> Num(500), costRWF |-> Num(650000)]
ItemDoor ==
    [part |-> "door", damage |-> "scratched", suggestion |-> "Replace",
     costUSD |-> Num(200), costRWF |-> Num(260000)]
\* an item without the costUSD key
ItemNoCostUSD ==
    [part |-> "hood", damage |-> "bent", suggestion |-> "Replace",
     costRWF |-> Num(130000)]
\* an item whose costUSD is null
ItemNullCostUSD ==
    [part |-> "roof", damage |-> "dented", suggestion |-> "Repair",
     costUSD |-> Null, costRWF |-> Num(90000)]
\* an item whose costUSD has a fraction: 99.6
ItemFraction ==
    [part |-> "fender", damage |-> "scraped", suggestion |-> "Repair",
     costUSD |-> Frac(99, 6), costRWF |-> Num(129480)]
\* an item without the suggestion key
ItemNoSuggestion ==
    [part |-> "mirror", damage |-> "cracked",
     costUSD |-> Num(100), costRWF |-> Num(130000)]

RequiredItemKeys == {"part", "damage", "suggestion", "costUSD", "costRWF"}
RequiredVehicleKeys == {"make", "model", "year"}

----------------------------------------------------------------------------
(* Text of a model response, as a sequence of lexemes.                     *)
(*   "FENCE" a Markdown fence (three backticks)  "json"  the word json      *)
(*   " "     white space / newline    "prose" words that are not JSON      *)
(*   "{" "}" the outermost braces of a JSON object                         *)
(*   a body lexeme: everything between the outermost braces of one object  *)
(*   a scalar lexeme: one complete JSON value that is not an object        *)

Bodies == {"vc1", "vc2", "vc0", "vcNoUSD", "vcNoSugg", "v", "c", "vNoYear"}

\* the members of the object written  { <body> }
BodyFields(b) ==
    CASE b = "vc1" -> [vehicle |-> VehicleA, costs |-> Arr(<<ItemBumper>>)]
      [] b = "vc2" -> [vehicle |-> VehicleA, costs |-> Arr(<<ItemBumper, ItemDoor>>)]
      [] b = "vc0" -> [vehicle |-> VehicleA, costs |-> Arr(<<>>)]
      [] b = "vcNoUSD" -> [vehicle |-> VehicleA, costs |-> Arr(<<ItemBumper, ItemNoCostUSD>>)]
      [] b = "vcNoSugg" -> [vehicle |-> VehicleA, costs |-> Arr(<<ItemNoSuggestion>>)]
      [] b = "v" -> [vehicle |-> VehicleA]
      [] b = "c" -> [costs |-> Arr(<<ItemBumper>>)]
      [] b = "vNoYear" -> [vehicle |-> VehicleNoYear, costs |-> Arr(<<ItemBumper>>)]

Scalars == {"5", "0", "null", "'s'", "''", "[]"}

ScalarValue(t) ==
    CASE t = "5" -> Num(5)
      [] t = "0" -> Num(0)
      [] t = "null" -> Null
      [] t = "'s'" -> Str(<<"s">>)
      [] t = "''" -> Str(<<>>)
      [] t = "[]" -> Arr(<<>>)

\* JSON.parse: white space between lexemes is insignificant; the text must be
\* exactly one value; anything else is a SyntaxError
JSONparse(text) ==
    LET t == SelectSeq(text, LAMBDA x : x # " ") IN
    IF Len(t) = 1 /\ t[1] \in Scalars THEN [ok |-> TRUE, value |-> ScalarValue(t[1])]
    ELSE IF t = <<"{", "}">> THEN [ok |-> TRUE, value |-> Obj(NoFields)]
    ELSE IF Len(t) = 3 /\ t[1] = "{" /\ t[2] \in Bodies /\ t[3] = "}"
         THEN [ok |-> TRUE, value |-> Obj(BodyFields(t[2]))]
    ELSE [ok |-> FALSE, value |-> Undefined]

\* text.replace(/FENCEjson/g, ''), FENCE standing for the three backticks
RECURSIVE RemoveJsonFences(_)
RemoveJsonFences(text) ==
    IF text = <<>> THEN <<>>
    ELSE IF Len(text) >= 2 /\ text[1] = "FENCE" /\ text[2] = "json"
         THEN RemoveJsonFences(SubSeq(text, 3, Len(text)))
    ELSE <<Head(text)>> \o RemoveJsonFences(Tail(text))

\* text.replace(/FENCE/g, '')
RemoveFences(text) == SelectSeq(text, LAMBDA x : x # "FENCE")

\* text.trim()
RECURSIVE TrimStart(_)
TrimStart(text) ==
    IF text # <<>> /\ Head(text) = " " THEN TrimStart(Tail(text)) ELSE text
RECURSIVE TrimEnd(_)
TrimEnd(text) ==
    IF text # <<>> /\ text[Len(text)] = " "
    THEN TrimEnd(SubSeq(text, 1, Len(text) - 1)) ELSE text
Trim(text) == TrimEnd(TrimStart(text))

\* the cleaning with the second replace left out: a closing fence stays
CleanedTextOpeningOnly(text) == Trim(RemoveJsonFences(text))

\* part.text.replace(/FENCEjson/g, '').replace(/FENCE/g, '').trim()
CleanedText(text) == Trim(RemoveFences(RemoveJsonFences(text)))

\* part.text.match(/\{[\s\S]*\}/): greedy, from the first "{" to the last "}"
MatchBraces(text) ==
    LET opens == {i \in 1..Len(text) : text[i] = "{"}
        closes == {i \in 1..Len(text) : text[i] = "}"}
    IN  IF opens = {} \/ closes = {} THEN [found |-> FALSE, str |-> <<>>]
        ELSE LET first == CHOOSE i \in opens : \A j \in opens : i <= j
                 last == CHOOSE i \in closes : \A j \in closes : j <= i
             IN  IF first < last
                 THEN [found |-> TRUE, str |-> SubSeq(text, first, last)]
                 ELSE [found |-> FALSE, str |-> <<>>]

\* the body of  else if (part.text) { try ... catch ... } : the value of
\* analysis after the part has been handled
ParseTextPart(text, analysis) ==
    LET first == JSONparse(CleanedText(text)) IN
    IF first.ok THEN first.value
    ELSE LET jsonMatch == MatchBraces(text) IN
         IF ~jsonMatch.found THEN analysis
         ELSE LET second == JSONparse(jsonMatch.str) IN
              IF second.ok THEN second.value ELSE analysis

----------------------------------------------------------------------------
(* Parts and responses *)

HasInlineData(part) == "inlineData" \in DOMAIN part
HasText(part) == "text" \in DOMAIN part /\ part.text # <<>>

\* the template literal  data:${mimeType};base64,${data}
DataUrl(inlineData) ==
    Str(<<"data:", inlineData.mimeType, ";base64,", inlineData.data>>)

MsgAnalysisMissing ==
    <<"The AI model did not return the expected annotated image and analysis data. Please try again.">>
MsgPreviewMissing ==
    <<"The AI model did not return a repaired image preview. Please try again.">>
\* TypeError of response.candidates[0].content.parts when content is undefined
MsgNoContent == <<"Cannot read properties of undefined (reading 'parts')">>
\* TypeError of  for (const part of undefined)  when content has no parts
MsgNotIterable == <<"undefined is not iterable">>

\* the for loop of generateDamageAnalysis over the parts
RECURSIVE ScanAnalysisParts(_, _, _)
ScanAnalysisParts(parts, annotated, analysis) ==
    IF parts = <<>> THEN [annotatedImage |-> annotated, analysis |-> analysis]
    ELSE LET part == Head(parts) IN
         IF HasInlineData(part)
         THEN ScanAnalysisParts(Tail(parts), DataUrl(part.inlineData), analysis)
         ELSE IF HasText(part)
         THEN ScanAnalysisParts(Tail(parts), annotated, ParseTextPart(part.text, analysis))
         ELSE ScanAnalysisParts(Tail(parts), annotated, analysis)

\* generateDamageAnalysis, from the response of generateContent on
generateDamageAnalysis(resp) ==
    IF "candidates" \in DOMAIN resp /\ Len(resp.candidates) > 0
    THEN LET cand == resp.candidates[1] IN
         IF "content" \notin DOMAIN cand THEN Rejected(MsgNoContent)
         ELSE IF "parts" \notin DOMAIN cand.content THEN Rejected(MsgNotIterable)
         ELSE LET got == ScanAnalysisParts(cand.content.parts, Null, Null) IN
              IF ~Truthy(got.annotatedImage) \/ ~Truthy(got.analysis)
              THEN Rejected(MsgAnalysisMissing)
              ELSE Fulfilled(got)
    ELSE Rejected(MsgAnalysisMissing)

\* the for loop of generateRepairedPreview: the first inline image is returned
RECURSIVE ScanPreviewParts(_)
ScanPreviewParts(parts) ==
    IF parts = <<>> THEN Rejected(MsgPreviewMissing)
    ELSE IF HasInlineData(Head(parts)) THEN Fulfilled(DataUrl(Head(parts).inlineData))
    ELSE ScanPreviewParts(Tail(parts))

\* generateRepairedPreview, from the response of generateContent on
generateRepairedPreview(resp) ==
    IF "candidates" \in DOMAIN resp /\ Len(resp.candidates) > 0
    THEN LET cand == resp.candidates[1] IN
         IF "content" \notin DOMAIN cand THEN Rejected(MsgNoContent)
         ELSE IF "parts" \notin DOMAIN cand.content THEN Rejected(MsgNotIterable)
         ELSE ScanPreviewParts(cand.content.parts)
    ELSE Rejected(MsgPreviewMissing)

----------------------------------------------------------------------------
(* Service run: one response of the generation backend is handed to        *)
(* generateDamageAnalysis and to generateRepairedPreview.                  *)

ImageParts ==
    {[inlineData |-> [mimeType |-> "image/png", data |-> d]] : d \in {"A", "B"}}

ObjectTexts == {<<"{", b, "}">> : b \in Bodies} \cup {<<"{", "}">>}
ScalarTexts == {<<t>> : t \in Scalars}
WrappedTexts ==
    { <<"FENCE", "json", " ", "{", "vc1", "}", " ", "FENCE">>,
      <<"prose", " ", "{", "vc1", "}">>,
      <<"{", "vc1", "}", " ", "{", "vc0", "}">>,
      <<"{", "vc1">>,
      <<"prose">> }
ServiceTexts == ObjectTexts \cup ScalarTexts \cup WrappedTexts

\* a part is an inline image, a text, or a part whose text is empty
Parts == ImageParts \cup {[text |-> t] : t \in ServiceTexts} \cup {[text |-> <<>>]}

SeqsUpTo(S, n) == UNION {[1..k -> S] : k \in 0..n}

FinishReasons == {"STOP", "SAFETY"}

Candidates ==
    {[finishReason |-> f] : f \in FinishReasons}
      \cup {[finishReason |-> f, content |-> [role |-> "model"]] : f \in FinishReasons}
      \cup {[finishReason |-> f, content |-> [role |-> "model", parts |-> ps]] :
               f \in FinishReasons, ps \in SeqsUpTo(Parts, MaxParts)}

UnblockedResponses ==
    {[modelVersion |-> "gemini-2.5-flash-image-preview"]} \cup {[candidates |-> <<>>]}
      \cup {[candidates |-> <<c>>] : c \in Candidates}

BlockFeedback == [blockReason |-> "SAFETY", blockReasonMessage |-> "unsafe prompt"]

BlockedResponses ==
    {[promptFeedback |-> BlockFeedback]}
      \cup {[promptFeedback |-> BlockFeedback, candidates |-> <<>>]}
      \cup {[promptFeedback |-> BlockFeedback, candidates |-> <<c>>] : c \in Candidates}

Responses == UnblockedResponses \cup BlockedResponses

ImagePartA == [inlineData |-> [mimeType |-> "image/png", data |-> "A"]]

\* the unblocked response whose first candidate stopped normally with these parts
ResponseWithParts(parts) ==
    [candidates |-> <<[finishReason |-> "STOP", content |-> [role |-> "model", parts |-> parts]]>>]

\* the response that carries an image and the given text
ResponseWithText(text) == ResponseWithParts(<<ImagePartA, [text |-> text]>>)

\* one unblocked response of each failure class
EmptyExample == ResponseWithParts(<<>>)
NoImageExample == ResponseWithParts(<<[text |-> <<"{", "vc1", "}">>]>>)
NoTextExample == ResponseWithParts(<<ImagePartA>>)


RunDamageAnalysis ==
    /\ analysisOutcome = Pending
    /\ analysisOutcome' = generateDamageAnalysis(response)
    /\ UNCHANGED <<response, previewOutcome, fenceVars, panelVars, appVars, narrationVars, startVars, summaryVars>>

RunRepairedPreview ==
    /\ previewOutcome = Pending
    /\ previewOutcome' = generateRepairedPreview(response)
    /\ UNCHANGED <<response, analysisOutcome, fenceVars, panelVars, appVars, narrationVars, startVars, summaryVars>>

NextService == RunDamageAnalysis \/ RunRepairedPreview

----------------------------------------------------------------------------
(* Fence run: the same payload P reaches generateDamageAnalysis once inside *)
(* a Markdown json code fence and once unfenced, next to an image part.     *)

PayloadLexemes == {"{", "}", "vc1", "vcNoUSD", "5", "null", "prose", " ", "FENCE", "json"}
Payloads == SeqsUpTo(PayloadLexemes, MaxPayloadLen)

\* P wrapped in a Markdown json code fence
Fence(text) == <<"FENCE", "json", " ">> \o text \o <<" ", "FENCE">>

ParseFenced ==
    /\ fencedOutcome = Pending
    /\ fencedOutcome' = generateDamageAnalysis(ResponseWithText(Fence(payload)))
    /\ UNCHANGED <<payload, rawOutcome, serviceVars, panelVars, appVars, narrationVars, startVars, summaryVars>>

ParseRaw ==
    /\ rawOutcome = Pending
    /\ rawOutcome' = generateDamageAnalysis(ResponseWithText(payload))
    /\ UNCHANGED <<payload, fencedOutcome, serviceVars, panelVars, appVars, narrationVars, startVars, summaryVars>>

NextFence == ParseFenced \/ ParseRaw

----------------------------------------------------------------------------
(* Panel run: the body of CostEstimationPanel on a cost list.               *)

\* item[key], undefined when the item has no such key
Field(item, key) == IF key \in DOMAIN item THEN item[key] ELSE Undefined

\* value || 0, for a value that is a number, null or undefined
OrZero(v) == IF Truthy(v) THEN v.n ELSE 0

\* the reducer callback with the costRWF line reading costUSD
AddCostUsdTwice(acc, cost) ==
    [usd |-> acc.usd + OrZero(Field(cost, "costUSD")),
     rwf |-> acc.rwf + OrZero(Field(cost, "costUSD"))]

\* the reducer callback of totals
AddCost(acc, cost) ==
    [usd |-> acc.usd + OrZero(Field(cost, "costUSD")),
     rwf |-> acc.rwf + OrZero(Field(cost, "costRWF"))]

\* costs.reduce(callback, acc), left to right
RECURSIVE ReduceTotals(_, _)
ReduceTotals(costs, acc) ==
    IF costs = <<>> THEN acc ELSE ReduceTotals(Tail(costs), AddCost(acc, Head(costs)))

\* the component body: the early return for no costs, else the totals of the table
CostEstimationPanel(costs) ==
    IF Len(costs) = 0
    THEN [view |-> "noDamage"]
    ELSE [view |-> "table", totals |-> ReduceTotals(costs, [usd |-> 0, rwf |-> 0])]

UsdValues == {Undefined, Null, Num(0), Num(3), Num(500)}
RwfValues == {Undefined, Null, Num(7)}

\* the item with the given costUSD and costRWF, a key being absent when its
\* value is undefined
PanelItem(usd, rwf) ==
    LET base == [part |-> "bumper", damage |-> "dented", suggestion |-> "Repair"]
        withUsd == IF usd = Undefined THEN base ELSE base @@ [costUSD |-> usd]
    IN  IF rwf = Undefined THEN withUsd ELSE withUsd @@ [costRWF |-> rwf]

PanelItems == {PanelItem(usd, rwf) : usd \in UsdValues, rwf \in RwfValues}

NotRendered == [view |-> "none"]

RenderPanel ==
    /\ panelView = NotRendered
    /\ panelView' = CostEstimationPanel(panelCosts)
    /\ UNCHANGED <<panelCosts, serviceVars, fenceVars, appVars, narrationVars, startVars, summaryVars>>

NextPanel == RenderPanel

----------------------------------------------------------------------------
(* The App: handleAnalyze, the two generation requests, the join, the       *)
(* render and handleStartOver.                                              *)

\* the image file the StartScreen hands to onAnalyze; submissions differ by the
\* object URL created for them
ImageFiles == {[name |-> "car.png", type |-> "image/png"]}

\* the responses the generation backend gives in a run of the App
AppResponses ==
    { ResponseWithText(<<"{", "vc1", "}">>),
      ResponseWithText(<<"{", "vc0", "}">>),
      ResponseWithText(<<"{", "}">>),
      NoTextExample,
      NoImageExample,
      [promptFeedback |-> BlockFeedback] }

\* the rejection of ai.models.generateContent when the request itself fails
MsgNetwork == <<"Failed to fetch">>

\* analysisResult.reason.message behind its prefix, null when fulfilled
AnalysisError(analysisResult) ==
    IF analysisResult.status = "fulfilled" THEN Null
    ELSE Str(<<"Analysis Failed: ">> \o analysisResult.message)

\* repairResult.reason.message behind its prefix, null when fulfilled
RepairError(repairResult) ==
    IF repairResult.status = "fulfilled" THEN Null
    ELSE Str(<<"Repair Preview Failed: ">> \o repairResult.message)

\* only the first error is kept
FirstErrorOnly(analysisError, repairError) ==
    IF Truthy(analysisError) THEN analysisError.s
    ELSE IF Truthy(repairError) THEN repairError.s
    ELSE <<>>

\* [analysisError, repairError].filter(Boolean).join('; ')
JoinErrors(analysisError, repairError) ==
    IF Truthy(analysisError) /\ Truthy(repairError)
    THEN analysisError.s \o <<"; ">> \o repairError.s
    ELSE IF Truthy(analysisError) THEN analysisError.s
    ELSE IF Truthy(repairError) THEN repairError.s
    ELSE <<>>

\* the join as Promise.all would make it: a rejection hides the sibling's result
SettledAllOrNothing(analysisResult, repairResult, prev) ==
    LET analysisError == AnalysisError(analysisResult)
        repairError == RepairError(repairResult)
        ok == ~Truthy(analysisError) /\ ~Truthy(repairError)
    IN  [annotatedImage |-> IF ok THEN analysisResult.value.annotatedImage ELSE prev.annotatedImage,
         costData |-> IF ok THEN Get(analysisResult.value.analysis, "costs") ELSE prev.costData,
         vehicleInfo |-> IF ok THEN Get(analysisResult.value.analysis, "vehicle") ELSE prev.vehicleInfo,
         repairedImage |-> IF ok THEN repairResult.value ELSE prev.repairedImage,
         error |-> IF ok THEN prev.error
                   ELSE Str(<<"Failed to analyze the image. ">> \o FirstErrorOnly(analysisError, repairError)),
         isLoading |-> FALSE]

\* the state after the code that follows  await Promise.allSettled([...])
Settled(analysisResult, repairResult, prev) ==
    LET analysisError == AnalysisError(analysisResult)
        repairError == RepairError(repairResult)
    IN  [annotatedImage |->
             IF analysisResult.status = "fulfilled"
             THEN analysisResult.value.annotatedImage ELSE prev.annotatedImage,
         costData |->
             IF analysisResult.status = "fulfilled"
             THEN Get(analysisResult.value.analysis, "costs") ELSE prev.costData,
         vehicleInfo |->
             IF analysisResult.status = "fulfilled"
             THEN Get(analysisResult.value.analysis, "vehicle") ELSE prev.vehicleInfo,
         repairedImage |->
             IF repairResult.status = "fulfilled" THEN repairResult.value ELSE prev.repairedImage,
         error |->
             IF Truthy(analysisError) \/ Truthy(repairError)
             THEN Str(<<"Failed to analyze the image. ">> \o JoinErrors(analysisError, repairError))
             ELSE prev.error,
         isLoading |-> FALSE]

\* which branch of renderContent is taken
View ==
    IF isLoading THEN "loading"
    ELSE IF Truthy(error) THEN "error"
    ELSE IF Truthy(originalImage) /\ Truthy(annotatedImage) /\ Truthy(repairedImage) THEN "results"
    ELSE "start"

\* the pieces of App state the taken branch of renderContent displays
Shown ==
    CASE View = "loading" -> {}
      [] View = "error" -> {"error"}
      [] View = "results" ->
            {"originalImage", "annotatedImage", "repairedImage"}
              \cup (IF Truthy(costData) /\ Truthy(vehicleInfo) THEN {"costData", "vehicleInfo"} ELSE {})
      [] View = "start" -> {}

\* URL.createObjectURL: a URL that was never handed out before
NewUrl == Len(calls) + 1

\* the handleAnalyze invocations that are suspended at their await; the runs
\* explored have at most two of them at a time (a double submission)
Awaiting == {i \in 1..Len(calls) : calls[i].phase = "awaiting"}

\* what a render of the current state puts on screen and hands to the closures
CurrentRender == [view |-> View, originalImage |-> originalImage]

\* React has committed the render of the current state
Committed == rendered = CurrentRender

\* handleAnalyze up to  await Promise.allSettled , called by the submit handler of
\* the StartScreen that is on screen; the state updates are batched, so until the
\* commit the StartScreen and its onAnalyze prop are still the ones of the last
\* render, and originalImage in the handler is the value that render captured
HandleAnalyze(imageFile) ==
    /\ rendered.view = "start"
    /\ Len(calls) < MaxCalls
    /\ Cardinality(Awaiting) <= 1
    /\ isLoading' = TRUE
    /\ error' = Null
    /\ annotatedImage' = Null
    /\ repairedImage' = Null
    /\ costData' = Null
    /\ vehicleInfo' = Null
    /\ originalImage' = [type |-> "object", file |-> imageFile, url |-> NewUrl]
    /\ liveUrls' = (IF Truthy(rendered.originalImage)
                     THEN liveUrls \ {rendered.originalImage.url} ELSE liveUrls)
                      \cup {NewUrl}
    /\ calls' = Append(calls, [file |-> imageFile, analysis |-> Pending, preview |-> Pending,
                               settled |-> <<>>, phase |-> "awaiting", returned |-> 0])
    /\ UNCHANGED <<rendered, serviceVars, fenceVars, panelVars, narrationVars, startVars, summaryVars>>

\* the generateDamageAnalysis promise of call i settles
AnalysisSettles(i) ==
    /\ Committed
    /\ calls[i].analysis = Pending
    /\ \E outcome \in {generateDamageAnalysis(r) : r \in AppResponses} \cup {Rejected(MsgNetwork)} :
          calls' = [calls EXCEPT ![i].analysis = outcome,
                                 ![i].settled = Append(@, "analysis")]
    /\ UNCHANGED <<appState, liveUrls, rendered, serviceVars, fenceVars, panelVars, narrationVars, startVars, summaryVars>>

\* the generateRepairedPreview promise of call i settles
PreviewSettles(i) ==
    /\ Committed
    /\ calls[i].preview = Pending
    /\ \E outcome \in {generateRepairedPreview(r) : r \in AppResponses} \cup {Rejected(MsgNetwork)} :
          calls' = [calls EXCEPT ![i].preview = outcome,
                                 ![i].settled = Append(@, "preview")]
    /\ UNCHANGED <<appState, liveUrls, rendered, serviceVars, fenceVars, panelVars, narrationVars, startVars, summaryVars>>

\* how many handleAnalyze invocations have run to their end
NumReturned == Cardinality({i \in 1..Len(calls) : calls[i].phase = "done"})

\* handleAnalyze of call i from the await on: both promises have settled (the
\* responses arrive in later tasks, after the commit of the handler's updates)
Join(i) ==
    /\ Committed
    /\ calls[i].phase = "awaiting"
    /\ calls[i].analysis # Pending
    /\ calls[i].preview # Pending
    /\ LET after == Settled(calls[i].analysis, calls[i].preview,
                            [annotatedImage |-> annotatedImage, costData |-> costData,
                             vehicleInfo |-> vehicleInfo, repairedImage |-> repairedImage,
                             error |-> error])
       IN  /\ annotatedImage' = after.annotatedImage
           /\ costData' = after.costData
           /\ vehicleInfo' = after.vehicleInfo
           /\ repairedImage' = after.repairedImage
           /\ error' = after.error
           /\ isLoading' = after.isLoading
    /\ calls' = [calls EXCEPT ![i].phase = "done", ![i].returned = NumReturned + 1]
    /\ UNCHANGED <<originalImage, liveUrls, rendered, serviceVars, fenceVars, panelVars, narrationVars, startVars, summaryVars>>

\* a start over that forgets to reset the cost data
StartOverKeepsCosts ==
    /\ rendered.view \in {"error", "results"}
    /\ originalImage' = Null
    /\ annotatedImage' = Null
    /\ repairedImage' = Null
    /\ vehicleInfo' = Null
    /\ error' = Null
    /\ isLoading' = FALSE
    /\ UNCHANGED <<costData, calls, liveUrls, rendered, serviceVars, fenceVars, panelVars,
                   narrationVars, startVars, summaryVars>>

\* handleStartOver, from the button of the error view and of the results view
\* that is on screen
HandleStartOver ==
    /\ rendered.view \in {"error", "results"}
    /\ originalImage' = Null
    /\ annotatedImage' = Null
    /\ repairedImage' = Null
    /\ costData' = Null
    /\ vehicleInfo' = Null
    /\ error' = Null
    /\ isLoading' = FALSE
    /\ UNCHANGED <<calls, liveUrls, rendered, serviceVars, fenceVars, panelVars, narrationVars, startVars, summaryVars>>

\* React commits the render of the batched updates; when originalImage changed,
\* the cleanup of the effect of the previous render revokes the URL it captured
Render ==
    /\ ~Committed
    /\ rendered' = CurrentRender
    /\ liveUrls' = IF Truthy(rendered.originalImage) /\ rendered.originalImage # originalImage
                   THEN liveUrls \ {rendered.originalImage.url} ELSE liveUrls
    /\ UNCHANGED <<appState, calls, serviceVars, fenceVars, panelVars, narrationVars, startVars, summaryVars>>

Next ==
    \/ \E imageFile \in ImageFiles : HandleAnalyze(imageFile)
    \/ \E i \in 1..Len(calls) : AnalysisSettles(i)
    \/ \E i \in 1..Len(calls) : PreviewSettles(i)
    \/ \E i \in 1..Len(calls) : Join(i)
    \/ HandleStartOver
    \/ Render

----------------------------------------------------------------------------
(* The narration run: one CostEstimationPanel instance after the other, each *)
(* with its play button (handlePlayDiagnosis), the textToSpeech requests and *)
(* the Audio elements it creates.                                            *)

Languages == {"en", "sw"}

\* cost lists whose table the panel can render (every item has a suggestion)
NarrationCosts == {<<>>, <<ItemBumper>>, <<ItemDoor, ItemNoCostUSD>>}

\* ${value} in a template literal, for a key that may be absent
TemplateText(fields, key) == IF key \in DOMAIN fields THEN fields[key] ELSE "undefined"

\* String.prototype.toLowerCase on the suggestions that occur
ToLowerCase(s) ==
    CASE s = "Repair" -> "repair"
      [] s = "Replace" -> "replace"
      [] OTHER -> s

\* acc + cost.costUSD of the reduce in generateDiagnosisSummary, the sum counted
\* in tenths: undefined makes the sum NaN, null counts as 0
AddCostUSD(acc, cost) ==
    LET v == Field(cost, "costUSD")
    IN  IF acc.nan THEN acc
        ELSE IF v.type = "number" THEN [nan |-> FALSE, n |-> acc.n + 10 * v.n + Tenths(v)]
        ELSE IF v = Null THEN acc
        ELSE [nan |-> TRUE, n |-> 0]

RECURSIVE TotalCost(_, _)
TotalCost(costs, acc) ==
    IF Len(costs) = 0 THEN acc
    ELSE TotalCost(Tail(costs), AddCostUSD(acc, Head(costs)))

\* dropping the fraction instead of rounding
Truncate(tenths) == tenths \div 10

\* Math.round of a number of tenths: floor(x + 0.5)
MathRound(tenths) == (tenths + 5) \div 10

\* ${Math.round(totalCost)}
RoundText(total) == IF total.nan THEN "NaN" ELSE ToString(MathRound(total.n))

\* the sentences costs.forEach appends
RECURSIVE ItemSentences(_)
ItemSentences(costs) ==
    IF Len(costs) = 0 THEN <<>>
    ELSE <<"The ", TemplateText(Head(costs), "part"), " has ",
           TemplateText(Head(costs), "damage"), ". My suggestion is to ",
           ToLowerCase(Head(costs).suggestion), " this part. ">>
         \o ItemSentences(Tail(costs))

generateDiagnosisSummary(costs, vehicle) ==
    IF Len(costs) = 0 THEN <<"No damage was detected.">>
    ELSE <<"Analysis for the ", TemplateText(vehicle.fields, "year"), " ",
           TemplateText(vehicle.fields, "make"), " ", TemplateText(vehicle.fields, "model"),
           ". I've detected damage on ", ToString(Len(costs)), " ",
           IF Len(costs) > 1 THEN "parts" ELSE "part", ". ">>
         \o ItemSentences(costs)
         \o <<"The total estimated cost for all repairs is approximately ",
              RoundText(TotalCost(costs, [nan |-> FALSE, n |-> 0])), " US dollars.">>

\* the cost lists and vehicles generateDiagnosisSummary is applied to: the
\* lists of at most MaxCosts items whose table the panel can render
SummaryItems == {ItemBumper, ItemDoor, ItemNoCostUSD, ItemNullCostUSD, ItemFraction}
SummaryCosts == UNION {[1..n -> SummaryItems] : n \in 0..MaxCosts}
SummaryVehicles == {VehicleA, VehicleNoYear}

\* the summary has not been composed for the props
NotComposed == [status |-> "none"]

\* the panel is rendered with the given costs and vehicleInfo
SetSummaryProps(costs, vehicle) ==
    /\ summaryProps' = [costs |-> costs, vehicle |-> vehicle]
    /\ summaryResult' = NotComposed
    /\ UNCHANGED <<serviceVars, fenceVars, panelVars, appVars, narrationVars, startVars>>

\* const summary = generateDiagnosisSummary() of handlePlayDiagnosis
ComposeSummary ==
    /\ summaryResult = NotComposed
    /\ summaryResult' = [status |-> "returned",
                         text |-> generateDiagnosisSummary(summaryProps.costs, summaryProps.vehicle)]
    /\ UNCHANGED <<summaryProps, serviceVars, fenceVars, panelVars, appVars, narrationVars, startVars>>

NextSummary ==
    \/ \E costs \in SummaryCosts, vehicle \in SummaryVehicles : SetSummaryProps(costs, vehicle)
    \/ ComposeSummary

\* the model textToSpeech asks for
ModelId(language) ==
    IF language = "sw" THEN "eleven_multilingual_v2" ELSE "eleven_monolingual_v1"

\* the rejections of textToSpeech: fetch fails, or the response is not ok
MsgTtsNotOk == <<"ElevenLabs API request failed: ", "401", " ", "Unauthorized", " - ", "Unknown error">>
TtsFailures == {MsgNetwork, MsgTtsNotOk}

\* the value of audioPlayer that holds the Audio element audios[a]
AudioRef(a) == [type |-> "object", audio |-> a]

\* the setters of the panel instance of the given session still have an effect
Live(session) == panelProps # Null /\ session = sessions

\* React has committed the render of the current state of the panel
NarrationCommitted ==
    panelProps = Null
      \/ panelCommitted = [playbackState |-> playbackState, audioPlayer |-> audioPlayer]

\* a play() that resumes where the element stands, also at its end
PlayWithoutRestart(audio) ==
    IF audio.failed THEN audio
    ELSE [audio EXCEPT !.playing = TRUE]

\* HTMLMediaElement.play(): resumes, from the start when playback had ended; on
\* an element in error nothing plays
Play(audio) ==
    IF audio.failed THEN audio
    ELSE [audio EXCEPT !.playing = TRUE,
                       !.currentTime = IF @ = "end" THEN "start" ELSE @]

\* a stop that pauses and keeps the position
PauseOnly(audio) == [audio EXCEPT !.playing = FALSE]

\* audioPlayer.pause(); audioPlayer.currentTime = 0
PauseAndRewind(audio) == [audio EXCEPT !.playing = FALSE, !.currentTime = "start"]

\* App renders the results view with cost data: a new panel instance, its
\* useState hooks at their initial values
MountPanel(costs, vehicle, language) ==
    /\ panelProps = Null
    /\ sessions < MaxSessions
    /\ panelProps' = [costs |-> costs, vehicle |-> vehicle, language |-> language]
    /\ sessions' = sessions + 1
    /\ playbackState' = "idle"
    /\ audioPlayer' = Null
    /\ panelCommitted' = [playbackState |-> "idle", audioPlayer |-> Null]
    /\ UNCHANGED <<ttsRequests, audios, audioUrls, serviceVars, fenceVars, panelVars, appVars, startVars, summaryVars>>

\* App leaves the results view (handleStartOver): the panel instance and its
\* state are dropped; the component has no effect cleanup, so nothing else runs
UnmountPanel ==
    /\ panelProps # Null
    /\ panelProps' = Null
    /\ playbackState' = "idle"
    /\ audioPlayer' = Null
    /\ panelCommitted' = [playbackState |-> "idle", audioPlayer |-> Null]
    /\ UNCHANGED <<sessions, ttsRequests, audios, audioUrls,
                   serviceVars, fenceVars, panelVars, appVars, startVars, summaryVars>>

\* handlePlayDiagnosis up to its await, as the click handler of the play button
\* of the committed render: the button is there when the cost list is not empty
\* and is disabled when that render was made with playbackState loading;
\* playbackState and audioPlayer in the handler are the values of that render
HandlePlayDiagnosis ==
    /\ panelProps # Null
    /\ Len(panelProps.costs) > 0
    /\ panelCommitted.playbackState # "loading"
    /\ IF panelCommitted.playbackState = "playing" /\ Truthy(panelCommitted.audioPlayer)
       THEN /\ audios' = [audios EXCEPT ![panelCommitted.audioPlayer.audio] = PauseAndRewind(@)]
            /\ playbackState' = "idle"
            /\ UNCHANGED ttsRequests
       ELSE IF Truthy(panelCommitted.audioPlayer)
       THEN /\ audios' = [audios EXCEPT ![panelCommitted.audioPlayer.audio] = Play(@)]
            /\ playbackState' = "playing"
            /\ UNCHANGED ttsRequests
       ELSE /\ Len(ttsRequests) < MaxRequests
            /\ playbackState' = "loading"
            /\ ttsRequests' = Append(ttsRequests,
                   [session |-> sessions,
                    text |-> generateDiagnosisSummary(panelProps.costs, panelProps.vehicle),
                    model_id |-> ModelId(panelProps.language),
                    outcome |-> Pending])
            /\ UNCHANGED audios
    /\ UNCHANGED <<panelProps, sessions, audioPlayer, panelCommitted, audioUrls,
                   serviceVars, fenceVars, panelVars, appVars, startVars, summaryVars>>

\* textToSpeech of request r returns an object URL for the audio blob and
\* handlePlayDiagnosis runs on from its await: new Audio, play, setAudioPlayer,
\* setPlaybackState (the setters of an unmounted instance do nothing)
TextToSpeechFulfils(r) ==
    /\ NarrationCommitted
    /\ ttsRequests[r].outcome = Pending
    /\ LET url == Len(audios) + 1
           newPlayer == [session |-> ttsRequests[r].session, url |-> url, playing |-> TRUE,
                         currentTime |-> "start", failed |-> FALSE]
       IN  /\ ttsRequests' = [ttsRequests EXCEPT ![r].outcome = Fulfilled(url)]
           /\ audioUrls' = audioUrls \cup {url}
           /\ audios' = Append(audios, newPlayer)
           /\ IF Live(ttsRequests[r].session)
              THEN /\ audioPlayer' = AudioRef(Len(audios) + 1)
                   /\ playbackState' = "playing"
              ELSE UNCHANGED <<audioPlayer, playbackState>>
    /\ UNCHANGED <<panelProps, sessions, panelCommitted, serviceVars, fenceVars, panelVars, appVars, startVars, summaryVars>>

\* textToSpeech of request r throws and the catch block of handlePlayDiagnosis runs
TextToSpeechRejects(r) ==
    /\ NarrationCommitted
    /\ ttsRequests[r].outcome = Pending
    /\ \E message \in TtsFailures :
          ttsRequests' = [ttsRequests EXCEPT ![r].outcome = Rejected(message)]
    /\ playbackState' = IF Live(ttsRequests[r].session) THEN "error" ELSE playbackState
    /\ UNCHANGED <<panelProps, sessions, audioPlayer, panelCommitted, audios, audioUrls,
                   serviceVars, fenceVars, panelVars, appVars, startVars, summaryVars>>

\* playback of audios[a] advances
AudioProgress(a) ==
    /\ NarrationCommitted
    /\ audios[a].playing
    /\ audios[a].currentTime = "start"
    /\ audios' = [audios EXCEPT ![a].currentTime = "middle"]
    /\ UNCHANGED <<panelProps, sessions, playbackState, audioPlayer, panelCommitted, ttsRequests,
                   audioUrls, serviceVars, fenceVars, panelVars, appVars, startVars, summaryVars>>

\* audios[a] plays to its end: newPlayer.onended
AudioEnded(a) ==
    /\ NarrationCommitted
    /\ audios[a].playing
    /\ audios' = [audios EXCEPT ![a].playing = FALSE, ![a].currentTime = "end"]
    /\ playbackState' = IF Live(audios[a].session) THEN "idle" ELSE playbackState
    /\ UNCHANGED <<panelProps, sessions, audioPlayer, panelCommitted, ttsRequests, audioUrls,
                   serviceVars, fenceVars, panelVars, appVars, startVars, summaryVars>>

\* the media of audios[a] cannot be loaded or decoded while the element tries
\* to play it: newPlayer.onerror
AudioError(a) ==
    /\ NarrationCommitted
    /\ audios[a].playing
    /\ audios' = [audios EXCEPT ![a].playing = FALSE, ![a].failed = TRUE]
    /\ playbackState' = IF Live(audios[a].session) THEN "error" ELSE playbackState
    /\ UNCHANGED <<panelProps, sessions, audioPlayer, panelCommitted, ttsRequests, audioUrls,
                   serviceVars, fenceVars, panelVars, appVars, startVars, summaryVars>>

\* React commits the render of the panel's batched state updates
RenderNarration ==
    /\ ~NarrationCommitted
    /\ panelCommitted' = [playbackState |-> playbackState, audioPlayer |-> audioPlayer]
    /\ UNCHANGED <<panelProps, sessions, playbackState, audioPlayer, ttsRequests, audios,
                   audioUrls, serviceVars, fenceVars, panelVars, appVars, startVars, summaryVars>>

NextNarration ==
    \/ \E costs \in NarrationCosts, language \in Languages : MountPanel(costs, VehicleA, language)
    \/ UnmountPanel
    \/ HandlePlayDiagnosis
    \/ \E r \in 1..Len(ttsRequests) : TextToSpeechFulfils(r)
    \/ \E r \in 1..Len(ttsRequests) : TextToSpeechRejects(r)
    \/ \E a \in 1..Len(audios) : AudioProgress(a)
    \/ \E a \in 1..Len(audios) : AudioEnded(a)
    \/ \E a \in 1..Len(audios) : AudioError(a)
    \/ RenderNarration

----------------------------------------------------------------------------
(* The start screen run: file selections, description edits and submits on  *)
(* the StartScreen, and the calls of onAnalyze they lead to.                *)

\* a File, its MIME type split behind the slash; the last one has no type
SelectableFiles ==
    { [name |-> "car.png", type |-> <<"image/", "png">>],
      [name |-> "car.jpg", type |-> <<"image/", "jpeg">>],
      [name |-> "notes.txt", type |-> <<"text/", "plain">>],
      [name |-> "dump", type |-> <<>>] }

\* a FileList with the given files
FileList(items) == [type |-> "object", items |-> items]

\* what the file input or a drop hands to handleFileChange
FileLists ==
    {Null, FileList(<<>>)}
      \cup {FileList(<<f>>) : f \in SelectableFiles}
      \cup {FileList(<<f, g>>) : f, g \in SelectableFiles}

\* the value of imageFile that holds the File f
FileObj(f) == [type |-> "object", file |-> f]

Descriptions == {<<>>, <<" ">>, <<"dent", " ">>}

\* a test that lets every type through
AnyType(type, prefix) == TRUE

\* file.type.startsWith(prefix)
StartsWith(type, prefix) == Len(type) >= 1 /\ type[1] = prefix

\* reader.result for the file
PreviewOf(f) == Str(<<"data:">> \o f.type \o <<";base64,", f.name>>)

\* handleFileChange, from the file input and from a drop
HandleFileChange(files) ==
    /\ IF Truthy(files) /\ Len(files.items) > 0
       THEN IF ~StartsWith(files.items[1].type, "image/")
            THEN /\ startError' = Str(<<"errorSelectImage">>)
                 /\ UNCHANGED <<startImageFile, readers>>
            ELSE /\ startError' = Null
                 /\ startImageFile' = FileObj(files.items[1])
                 /\ readers' = readers \cup {files.items[1]}
       ELSE UNCHANGED <<startError, startImageFile, readers>>
    /\ UNCHANGED <<imagePreview, startDescription, analyzeRequests,
                   serviceVars, fenceVars, panelVars, appVars, narrationVars, summaryVars>>

\* reader.onloadend of the FileReader that read f
ReaderLoadEnd(f) ==
    /\ f \in readers
    /\ readers' = readers \ {f}
    /\ imagePreview' = PreviewOf(f)
    /\ UNCHANGED <<startImageFile, startDescription, startError, analyzeRequests,
                   serviceVars, fenceVars, panelVars, appVars, narrationVars, summaryVars>>

\* onChange of the textarea
SetDescription(value) ==
    /\ startDescription # value
    /\ startDescription' = value
    /\ UNCHANGED <<startImageFile, imagePreview, startError, readers, analyzeRequests,
                   serviceVars, fenceVars, panelVars, appVars, narrationVars, summaryVars>>

\* handleSubmit of the form
HandleSubmit ==
    /\ IF ~Truthy(startImageFile)
       THEN /\ startError' = Str(<<"errorSelectImageToAnalyze">>)
            /\ UNCHANGED analyzeRequests
       ELSE IF Trim(startDescription) = <<>>
       THEN /\ startError' = Str(<<"errorProvideDescription">>)
            /\ UNCHANGED analyzeRequests
       ELSE /\ Len(analyzeRequests) < MaxSubmits
            /\ analyzeRequests' = Append(analyzeRequests,
                   [imageFile |-> startImageFile.file, description |-> startDescription])
            /\ UNCHANGED startError
    /\ UNCHANGED <<startImageFile, imagePreview, startDescription, readers,
                   serviceVars, fenceVars, panelVars, appVars, narrationVars, summaryVars>>

\* after a submission the App shows another view; the StartScreen it shows
\* later is a new instance with its useState hooks at their initial values
RemountStartScreen ==
    /\ Len(analyzeRequests) > 0
    /\ startImageFile' = Null
    /\ imagePreview' = Null
    /\ startDescription' = <<>>
    /\ startError' = Null
    /\ readers' = {}
    /\ UNCHANGED <<analyzeRequests, serviceVars, fenceVars, panelVars, appVars, narrationVars, summaryVars>>

NextStart ==
    \/ \E files \in FileLists : HandleFileChange(files)
    \/ \E f \in SelectableFiles : ReaderLoadEnd(f)
    \/ \E value \in Descriptions : SetDescription(value)
    \/ HandleSubmit
    \/ RemountStartScreen

----------------------------------------------------------------------------
(* Specifications *)

NoResponse == [candidates |-> <<>>]

ServiceIdle ==
    /\ response = NoResponse
    /\ analysisOutcome = Pending
    /\ previewOutcome = Pending

FenceIdle ==
    /\ payload = <<>>
    /\ fencedOutcome = Pending
    /\ rawOutcome = Pending

PanelIdle ==
    /\ panelCosts = <<>>
    /\ panelView = NotRendered

\* the App as constructed: the initial values of its useState hooks
AppInit ==
    /\ originalImage = Null
    /\ annotatedImage = Null
    /\ repairedImage = Null
    /\ costData = Null
    /\ vehicleInfo = Null
    /\ isLoading = FALSE
    /\ error = Null
    /\ calls = <<>>
    /\ liveUrls = {}
    /\ rendered = [view |-> "start", originalImage |-> Null]

SummaryIdle ==
    /\ summaryProps = [costs |-> <<>>, vehicle |-> VehicleA]
    /\ summaryResult = NotComposed

\* the StartScreen as mounted: the initial values of its useState hooks
StartIdle ==
    /\ startImageFile = Null
    /\ imagePreview = Null
    /\ startDescription = <<>>
    /\ startError = Null
    /\ readers = {}
    /\ analyzeRequests = <<>>

\* no CostEstimationPanel was mounted yet
NarrationIdle ==
    /\ panelProps = Null
    /\ sessions = 0
    /\ playbackState = "idle"
    /\ audioPlayer = Null
    /\ panelCommitted = [playbackState |-> "idle", audioPlayer |-> Null]
    /\ ttsRequests = <<>>
    /\ audios = <<>>
    /\ audioUrls = {}

InitService ==
    /\ response \in Responses
    /\ analysisOutcome = Pending
    /\ previewOutcome = Pending
    /\ FenceIdle
    /\ PanelIdle
    /\ AppInit
    /\ NarrationIdle
    /\ StartIdle
    /\ SummaryIdle

SpecService == InitService /\ [][NextService]_vars

InitFence ==
    /\ payload \in Payloads
    /\ fencedOutcome = Pending
    /\ rawOutcome = Pending
    /\ ServiceIdle
    /\ PanelIdle
    /\ AppInit
    /\ NarrationIdle
    /\ StartIdle
    /\ SummaryIdle

SpecFence == InitFence /\ [][NextFence]_vars

InitPanel ==
    /\ panelCosts \in SeqsUpTo(PanelItems, MaxCosts)
    /\ panelView = NotRendered
    /\ ServiceIdle
    /\ FenceIdle
    /\ AppInit
    /\ NarrationIdle
    /\ StartIdle
    /\ SummaryIdle

SpecPanel == InitPanel /\ [][NextPanel]_vars

Init ==
    /\ AppInit
    /\ ServiceIdle
    /\ FenceIdle
    /\ PanelIdle
    /\ NarrationIdle
    /\ StartIdle
    /\ SummaryIdle

Spec == Init /\ [][Next]_vars

InitNarration ==
    /\ NarrationIdle
    /\ StartIdle
    /\ SummaryIdle
    /\ ServiceIdle
    /\ FenceIdle
    /\ PanelIdle
    /\ AppInit

SpecNarration == InitNarration /\ [][NextNarration]_vars

InitSummary ==
    /\ ServiceIdle
    /\ FenceIdle
    /\ PanelIdle
    /\ AppInit
    /\ NarrationIdle
    /\ StartIdle
    /\ summaryProps \in [costs : SummaryCosts, vehicle : SummaryVehicles]
    /\ summaryResult = NotComposed

SpecSummary == InitSummary /\ [][NextSummary]_vars

InitStart ==
    /\ StartIdle
    /\ NarrationIdle
    /\ SummaryIdle
    /\ ServiceIdle
    /\ FenceIdle
    /\ PanelIdle
    /\ AppInit

SpecStart == InitStart /\ [][NextStart]_vars

----------------------------------------------------------------------------
(* Claims about the service run (SpecService) *)

\* x is one of the fragments of message
Contains(message, x) == \E i \in 1..Len(message) : message[i] = x

\* text occurs in message, fragment by fragment, as one contiguous run
ContainsRun(message, text) ==
    \E i \in 0..(Len(message) - Len(text)) :
        \A k \in 1..Len(text) : message[i + k] = text[k]

Blocked(resp) == "promptFeedback" \in DOMAIN resp

\* the parts of the first candidate, none when there is no candidate or content
PartsOf(resp) ==
    IF "candidates" \in DOMAIN resp /\ Len(resp.candidates) > 0
       /\ "content" \in DOMAIN resp.candidates[1]
       /\ "parts" \in DOMAIN resp.candidates[1].content
    THEN resp.candidates[1].content.parts
    ELSE <<>>

FinishReasonOf(resp) ==
    IF "candidates" \in DOMAIN resp /\ Len(resp.candidates) > 0
    THEN resp.candidates[1].finishReason
    ELSE "STOP"

HasImagePart(resp) == \E i \in 1..Len(PartsOf(resp)) : HasInlineData(PartsOf(resp)[i])
HasTextPart(resp) == \E i \in 1..Len(PartsOf(resp)) : HasText(PartsOf(resp)[i])

\* the failure class the classification order assigns to an unblocked response
FailureClass(resp) ==
    IF PartsOf(resp) = <<>> THEN "EmptyResponse"
    ELSE IF ~HasImagePart(resp) THEN "MissingImage"
    ELSE IF ~HasTextPart(resp) THEN "MissingStructuredData"
    ELSE "none"

ExampleOf(class) ==
    CASE class = "EmptyResponse" -> EmptyExample
      [] class = "MissingImage" -> NoImageExample
      [] class = "MissingStructuredData" -> NoTextExample

FailureClasses == {"EmptyResponse", "MissingImage", "MissingStructuredData"}

\* C1: for every response that carries a block reason, generateDamageAnalysis
\* and generateRepairedPreview both fail with an error that names the reason,
\* whether or not image or text parts are present.
C1_BlockedFailsNamingReason ==
    Blocked(response) =>
        /\ analysisOutcome # Pending =>
              /\ analysisOutcome.status = "rejected"
              /\ Contains(analysisOutcome.message, response.promptFeedback.blockReason)
        /\ previewOutcome # Pending =>
              /\ previewOutcome.status = "rejected"
              /\ Contains(previewOutcome.message, response.promptFeedback.blockReason)

\* C2: an unblocked damage-analysis response with zero parts, with parts but no
\* inline image, or with an image but no text part fails; the error of each of
\* the three classes differs from the errors of the other two; and a finish
\* reason other than STOP is carried in the error.
C2_FailureClassesDistinct ==
    (~Blocked(response) /\ analysisOutcome # Pending
        /\ FailureClass(response) \in FailureClasses) =>
        /\ analysisOutcome.status = "rejected"
        /\ \A other \in FailureClasses \ {FailureClass(response)} :
              analysisOutcome.message # generateDamageAnalysis(ExampleOf(other)).message
        /\ FinishReasonOf(response) # "STOP" =>
              Contains(analysisOutcome.message, FinishReasonOf(response))

\* every member of the cost list carries the five required keys
AllItemsComplete(costs) ==
    costs.type = "array" =>
        \A i \in 1..Len(costs.items) : RequiredItemKeys \subseteq DOMAIN costs.items[i]

\* C3: generateDamageAnalysis never returns an analysis that contains a cost
\* item lacking part, damage, suggestion, costUSD or costRWF.
C3_NoIncompleteItemReturned ==
    analysisOutcome.status = "fulfilled" =>
        AllItemsComplete(Get(analysisOutcome.value.analysis, "costs"))

\* the analysis has the vehicle object (make, model, year) and the costs sequence
WellShaped(analysis) ==
    /\ analysis.type = "object"
    /\ Get(analysis, "vehicle").type = "object"
    /\ RequiredVehicleKeys \subseteq DOMAIN Get(analysis, "vehicle").fields
    /\ Get(analysis, "costs").type = "array"

\* C4: generateDamageAnalysis never returns an analysis whose top level lacks
\* the vehicle object (make, model, year) or the costs sequence.
C4_ReturnedAnalysisWellShaped ==
    analysisOutcome.status = "fulfilled" => WellShaped(analysisOutcome.value.analysis)

\* neither the cleaned text nor the brace-delimited excerpt of text is JSON
NotParseable(text) ==
    /\ ~JSONparse(CleanedText(text)).ok
    /\ MatchBraces(text).found => ~JSONparse(MatchBraces(text).str).ok

TextsOf(resp) == {PartsOf(resp)[i].text : i \in {j \in 1..Len(PartsOf(resp)) : HasText(PartsOf(resp)[j])}}

\* C6: when the response has an image and its text part is not parseable as
\* JSON, generateDamageAnalysis fails with an error that carries the raw text
\* and differs from the missing-image and the missing-text errors.
C6_MalformedJsonCarriesRawText ==
    (analysisOutcome # Pending /\ HasImagePart(response)
        /\ Cardinality(TextsOf(response)) = 1
        /\ \A text \in TextsOf(response) : NotParseable(text)) =>
        /\ analysisOutcome.status = "rejected"
        /\ \A text \in TextsOf(response) : ContainsRun(analysisOutcome.message, text)
        /\ analysisOutcome.message # generateDamageAnalysis(NoImageExample).message
        /\ analysisOutcome.message # generateDamageAnalysis(NoTextExample).message

----------------------------------------------------------------------------
(* Claims about the fence run (SpecFence) *)

----------------------------------------------------------------------------
(* Claims about the panel run (SpecPanel) *)

\* the number under key, 0 when the key is absent or its value is null
NumberOrZero(item, key) ==
    IF key \in DOMAIN item /\ item[key].type = "number" THEN item[key].n ELSE 0

\* the sum of the items' numbers under key, from the last item backwards
RECURSIVE SumField(_, _)
SumField(costs, key) ==
    IF Len(costs) = 0 THEN 0
    ELSE SumField(SubSeq(costs, 1, Len(costs) - 1), key) + NumberOrZero(costs[Len(costs)], key)

\* C7: for every cost list the totals of the cost panel are the sum of the
\* items' costUSD and the sum of the items' costRWF, an absent or null field
\* counting as 0; for the empty list the reduction gives (0, 0).
C7_TotalsAreSums ==
    /\ panelView.view = "table" =>
          /\ panelView.totals.usd = SumField(panelCosts, "costUSD")
          /\ panelView.totals.rwf = SumField(panelCosts, "costRWF")
    /\ panelView.view = "noDamage" =>
          /\ panelCosts = <<>>
          /\ ReduceTotals(panelCosts, [usd |-> 0, rwf |-> 0]) = [usd |-> 0, rwf |-> 0]

\* a table was rendered for a list with an item without costUSD and an item
\* whose costRWF is null, next to real amounts
C7_Witness ==
    /\ panelView.view = "table"
    /\ Len(panelCosts) = MaxCosts
    /\ \E i \in 1..Len(panelCosts) : "costUSD" \notin DOMAIN panelCosts[i]
    /\ \E i \in 1..Len(panelCosts) : Field(panelCosts[i], "costRWF") = Null
    /\ panelView.totals.usd > 0
    /\ panelView.totals.rwf > 0

----------------------------------------------------------------------------
(* Claims about the App (Spec) *)

LastCall == calls[Len(calls)]

\* the latest handleAnalyze has run to its end, no other invocation has returned
\* after it, and its image is still installed
AfterJoin ==
    /\ Len(calls) > 0
    /\ LastCall.phase = "done"
    /\ LastCall.returned = NumReturned
    /\ Truthy(originalImage)

AnalysisOnlySucceeded ==
    AfterJoin /\ LastCall.analysis.status = "fulfilled" /\ LastCall.preview.status = "rejected"
PreviewOnlySucceeded ==
    AfterJoin /\ LastCall.analysis.status = "rejected" /\ LastCall.preview.status = "fulfilled"
BothFailed ==
    AfterJoin /\ LastCall.analysis.status = "rejected" /\ LastCall.preview.status = "rejected"

\* C8: after handleAnalyze has joined the two requests and exactly one of them
\* succeeded, the state holds the successful branch's data (annotated image,
\* costs and vehicle, or the repaired image) and a non-empty error that names
\* the failed branch, whichever of the two settled first.
C8_PartialSuccessKept ==
    /\ AnalysisOnlySucceeded =>
          /\ annotatedImage = LastCall.analysis.value.annotatedImage
          /\ costData = Get(LastCall.analysis.value.analysis, "costs")
          /\ vehicleInfo = Get(LastCall.analysis.value.analysis, "vehicle")
          /\ Truthy(error)
          /\ Contains(error.s, "Repair Preview Failed: ")
          /\ ContainsRun(error.s, LastCall.preview.message)
    /\ PreviewOnlySucceeded =>
          /\ repairedImage = LastCall.preview.value
          /\ Truthy(error)
          /\ Contains(error.s, "Analysis Failed: ")
          /\ ContainsRun(error.s, LastCall.analysis.message)

\* the analysis succeeded with a cost list after the preview had already failed
C8_Witness ==
    /\ AnalysisOnlySucceeded
    /\ LastCall.settled = <<"preview", "analysis">>
    /\ Truthy(annotatedImage)
    /\ costData = Arr(<<ItemBumper>>)
    /\ vehicleInfo = VehicleA

\* C9: when exactly one of the two requests failed, the view shown after the
\* join displays the result of the request that succeeded.
C9_PartialSuccessRendered ==
    /\ AnalysisOnlySucceeded => "annotatedImage" \in Shown
    /\ PreviewOnlySucceeded => "repairedImage" \in Shown

\* run occurs in message at offset i
RunAt(message, run, i) ==
    /\ i + Len(run) <= Len(message)
    /\ \A k \in 1..Len(run) : message[i + k] = run[k]

\* C10: when both requests failed, the stored error contains the message of the
\* analysis failure and, after it, the message of the preview failure.
C10_BothMessagesInOrder ==
    BothFailed =>
        /\ Truthy(error)
        /\ \E i, j \in 0..Len(error.s) :
              /\ RunAt(error.s, LastCall.analysis.message, i)
              /\ RunAt(error.s, LastCall.preview.message, j)
              /\ i + Len(LastCall.analysis.message) <= j

\* both requests failed, with different messages
C10_Witness ==
    /\ BothFailed
    /\ LastCall.analysis.message = MsgAnalysisMissing
    /\ LastCall.preview.message = MsgNetwork

\* C11: in every state in which the results view is shown, the original image,
\* the annotated image, the repaired image and the cost data are all present;
\* and in every state after a finished submission in which one of them is
\* absent, the error view is shown.
C11_ResultsViewHasAllData ==
    /\ View = "results" =>
          /\ Truthy(originalImage)
          /\ Truthy(annotatedImage)
          /\ Truthy(repairedImage)
          /\ Truthy(costData)
    /\ (AfterJoin /\ ~(Truthy(annotatedImage) /\ Truthy(repairedImage) /\ Truthy(costData))) =>
          View = "error"

----------------------------------------------------------------------------
(* Claims about overlapping submissions (Spec) *)

\* invocation i returns in this step while a newer invocation exists
StaleJoinStep ==
    \E i \in 1..Len(calls) :
        /\ i < Len(calls)
        /\ calls[i].phase = "awaiting"
        /\ calls'[i].phase = "done"

\* C12: when a second submission has started while the requests of an earlier
\* one were pending, the earlier submission, when it settles and its handler
\* resumes, leaves the annotated image, repaired image, cost data, vehicle
\* info, error and loading flag of the newer submission as they are.
C12_StaleResultsDiscarded ==
    [][StaleJoinStep =>
          UNCHANGED <<annotatedImage, repairedImage, costData, vehicleInfo, error, isLoading>>]_vars

\* the invocation that returned last
LastReturned == CHOOSE i \in 1..Len(calls) : calls[i].returned = NumReturned

\* the results view is up with the original image of one submission next to the
\* annotated and repaired image written by the join of another one (a results
\* view has no error, so the join that ran last fulfilled and wrote both)
MixedRender ==
    /\ View = "results"
    /\ NumReturned > 0
    /\ originalImage.url # LastReturned

\* C13: every handleAnalyze call has cleared the error, annotated image,
\* repaired image, cost data and vehicle info and installed its own original
\* image when its two requests are issued, and no state rendered afterwards
\* mixes data of two different submissions, also under a double submission.
C13_ClearedBeforeRequestsNoMix ==
    [][/\ Len(calls') > Len(calls) =>
             /\ error' = Null
             /\ annotatedImage' = Null
             /\ repairedImage' = Null
             /\ costData' = Null
             /\ vehicleInfo' = Null
             /\ originalImage'.url = Len(calls')
             /\ calls'[Len(calls')].analysis = Pending
             /\ calls'[Len(calls')].preview = Pending
       /\ ~MixedRender']_vars

----------------------------------------------------------------------------
(* Claims about the narration run (SpecNarration) *)

\* a textToSpeech request is in flight
PendingRequests == {r \in 1..Len(ttsRequests) : ttsRequests[r].outcome = Pending}

\* the play button is pressed on a render that shows the current state, with no
\* request in flight: the previous play request has finished
SettledPress == HandlePlayDiagnosis /\ NarrationCommitted /\ PendingRequests = {}

\* the cached Audio element
Cached == audios[audioPlayer.audio]

InFlight(session) == {r \in PendingRequests : ttsRequests[r].session = session}

\* C15: in every state of a narration session at most one textToSpeech request
\* is in flight, and a play request handled while the state is loading, also a
\* second press handled before the panel has re-rendered, changes nothing and
\* issues no request.
C15_OneRequestInFlight ==
    [][/\ \A session \in 1..MaxSessions : Cardinality(InFlight(session)') <= 1
       /\ (HandlePlayDiagnosis /\ playbackState = "loading") =>
             UNCHANGED <<playbackState, audioPlayer, ttsRequests, audios>>]_vars

\* the transitions of the playback state machine as documented
DocumentedTransitions ==
    { <<"idle", "loading">>, <<"loading", "playing">>, <<"loading", "error">>,
      <<"playing", "idle">>, <<"idle", "playing">>, <<"error", "loading">> }

\* the step is a play request, a synthesis result or an audio event of the
\* mounted panel instance
SessionStep == panelProps # Null /\ panelProps' # Null

\* C16: every change of playbackState by a play request, a synthesis result or
\* an audio event is a documented transition (idle to playing only with cached
\* audio); playing to error and error to playing, for example, do not occur.
C16_OnlyDocumentedTransitions ==
    [][(SessionStep /\ playbackState' # playbackState) =>
          /\ <<playbackState, playbackState'>> \in DocumentedTransitions
          /\ (playbackState = "idle" /\ playbackState' = "playing") => Truthy(audioPlayer)]_vars

\* C17: in the error state, whether a failed synthesis request or an error
\* event of the audio element led to it, the next play request sets the state
\* to loading and issues a new synthesis request.
C17_ErrorRetriesSynthesis ==
    [][(HandlePlayDiagnosis /\ NarrationCommitted /\ playbackState = "error") =>
          /\ playbackState' = "loading"
          /\ Len(ttsRequests') = Len(ttsRequests) + 1]_vars

\* the request r of the mounted session settles in this step
SettlesNow(r) == ttsRequests[r].outcome = Pending /\ ttsRequests'[r].outcome # Pending

\* C18: a play request from idle with no cached audio sets the state to loading
\* and issues exactly one synthesis request, for the composed narration; the
\* state leaves loading only through the outcome of that request, to playing
\* with the audio playing and its handle cached when it succeeded, to error
\* with no handle cached when it failed; and whenever the request settles the
\* state leaves loading.
C18_LoadingFollowsTheRequest ==
    [][/\ (HandlePlayDiagnosis /\ NarrationCommitted /\ playbackState = "idle"
              /\ audioPlayer = Null) =>
             /\ playbackState' = "loading"
             /\ Len(ttsRequests') = Len(ttsRequests) + 1
             /\ SubSeq(ttsRequests', 1, Len(ttsRequests)) = ttsRequests
             /\ ttsRequests'[Len(ttsRequests')].outcome = Pending
             /\ ttsRequests'[Len(ttsRequests')].text =
                    generateDiagnosisSummary(panelProps.costs, panelProps.vehicle)
       /\ (SessionStep /\ playbackState = "loading" /\ playbackState' # "loading") =>
             \A r \in InFlight(sessions) :
                 /\ SettlesNow(r)
                 /\ ttsRequests'[r].outcome.status = "fulfilled" =>
                       /\ playbackState' = "playing"
                       /\ Truthy(audioPlayer')
                       /\ audios'[audioPlayer'.audio].playing
                       /\ audios'[audioPlayer'.audio].url = ttsRequests'[r].outcome.value
                 /\ ttsRequests'[r].outcome.status = "rejected" =>
                       /\ playbackState' = "error"
                       /\ audioPlayer' = Null
       /\ (SessionStep /\ playbackState = "loading"
              /\ \E r \in InFlight(sessions) : SettlesNow(r)) =>
             playbackState' # "loading"]_vars

\* the cached Audio element plays to its end in this step
CachedAudioEnds ==
    /\ SessionStep
    /\ Truthy(audioPlayer)
    /\ Cached.playing
    /\ ~audios'[audioPlayer.audio].playing
    /\ audios'[audioPlayer.audio].currentTime = "end"

NewAnalysisShown == panelProps = Null /\ panelProps' # Null /\ sessions >= 1

\* C20: when the analysis on display is replaced by a new one, the narration
\* session of the previous analysis is torn down: none of its Audio elements
\* is playing, their object URLs are released, and the session of the new
\* analysis starts in idle with no cached audio.
C20_PreviousSessionTornDown ==
    [][NewAnalysisShown =>
          /\ playbackState' = "idle"
          /\ audioPlayer' = Null
          /\ \A a \in 1..Len(audios') :
                /\ ~audios'[a].playing
                /\ audios'[a].url \notin audioUrls']_vars

\* C21: at most one object URL returned by textToSpeech is unreleased at any
\* time, and none is left once the narration session it belongs to has ended.
C21_OneAudioResourceLive ==
    /\ Cardinality(audioUrls) <= 1
    /\ \A a \in 1..Len(audios) :
          audios[a].url \in audioUrls => Live(audios[a].session)

----------------------------------------------------------------------------
(* Further claims about the App (Spec) *)

\* handleStartOver runs in this step: the only handler that empties originalImage
StartOverStep == HandleStartOver /\ rendered.view \in {"error", "results"}

\* C22: from the error view and from the results view handleStartOver empties
\* the original image, annotated image, repaired image, cost data, vehicle
\* info and error and sets the loading flag to false, after which the input
\* view is what is rendered; it issues no backend request, and no step other
\* than a submission ever issues one (no automatic retry after a failure).
C22_StartOverResetsEverything ==
    [][/\ StartOverStep =>
             /\ originalImage' = Null
             /\ annotatedImage' = Null
             /\ repairedImage' = Null
             /\ costData' = Null
             /\ vehicleInfo' = Null
             /\ error' = Null
             /\ isLoading' = FALSE
             /\ View' = "start"
             /\ Len(calls') = Len(calls)
       /\ Len(calls') > Len(calls) =>
             /\ \E imageFile \in ImageFiles : HandleAnalyze(imageFile)
             /\ Len(calls') = Len(calls) + 1]_vars

\* handleStartOver has acted after a failed submission: the input view is shown
\* again and the one submission made so far has not been repeated
C22_Witness ==
    /\ Len(calls) = 1
    /\ calls[1].phase = "done"
    /\ calls[1].analysis.status = "rejected"
    /\ originalImage = Null
    /\ error = Null
    /\ Committed
    /\ rendered.view = "start"

----------------------------------------------------------------------------
(* Claims about the start screen run (SpecStart) *)

IsImageType(type) == Len(type) >= 1 /\ type[1] = "image/"

\* handleFileChange is called with a list whose first file is not an image
NonImageSelected ==
    \E files \in FileLists :
        /\ HandleFileChange(files)
        /\ Truthy(files)
        /\ Len(files.items) > 0
        /\ ~IsImageType(files.items[1].type)

\* C23: selecting a file whose MIME type does not start with image/ sets the
\* invalid-file error, calls no backend and never becomes the selected file;
\* and after any sequence of selections and submits every call of onAnalyze
\* so far was made with a file of an image MIME type.
C23_OnlyImagesReachOnAnalyze ==
    [][/\ NonImageSelected =>
             /\ startError' = Str(<<"errorSelectImage">>)
             /\ startImageFile' = startImageFile
             /\ analyzeRequests' = analyzeRequests
       /\ Truthy(startImageFile') => IsImageType(startImageFile'.file.type)
       /\ \A i \in 1..Len(analyzeRequests') :
             IsImageType(analyzeRequests'[i].imageFile.type)]_vars

\* a text file was refused while an image was selected, and the image was then
\* submitted
C23_Witness ==
    /\ startError = Str(<<"errorSelectImage">>)
    /\ Truthy(startImageFile)
    /\ Len(analyzeRequests) >= 1
    /\ analyzeRequests[Len(analyzeRequests)].imageFile = startImageFile.file

----------------------------------------------------------------------------
(* Claims about the narration text (SpecSummary) *)

\* every item of the list has a costUSD that is a number or null
AllCostsStated(costs) ==
    \A i \in 1..Len(costs) : Field(costs[i], "costUSD").type \in {"number", "null"}

\* the sum of the items' costUSD in tenths, null counting as 0
RECURSIVE SumCostUSD(_)
SumCostUSD(costs) ==
    IF Len(costs) = 0 THEN 0
    ELSE LET v == Field(costs[Len(costs)], "costUSD")
         IN  SumCostUSD(SubSeq(costs, 1, Len(costs) - 1))
             + (IF v.type = "number" THEN 10 * v.n + Tenths(v) ELSE 0)

\* k is the integer nearest to the given number of tenths
Nearest(k, tenths) == 10 * k - 5 < tenths /\ tenths < 10 * k + 5

\* the text says the given amount where the closing sentence has its total
ClosesWith(text, tenths) ==
    \E k \in 0..(tenths \div 10 + 1) :
        /\ Nearest(k, tenths)
        /\ text[Len(text) - 1] = ToString(k)

RECURSIVE FractionsUSD(_)
FractionsUSD(costs) ==
    IF Len(costs) = 0 THEN 0
    ELSE LET v == Field(Head(costs), "costUSD")
         IN  (IF Truthy(v) THEN Tenths(v) ELSE 0) + FractionsUSD(Tail(costs))

\* totals.usd of the cost table, in tenths
TableTotalUSD(costs) ==
    10 * ReduceTotals(costs, [usd |-> 0, rwf |-> 0]).usd + FractionsUSD(costs)

\* C27: for every cost list, including lists with an absent or null costUSD,
\* the total stated in the closing sentence of the narration is the rounded
\* totalUSD of the cost table.
C27_NarrationTotalIsTableTotal ==
    (summaryResult.status = "returned" /\ Len(summaryProps.costs) > 0) =>
        \E k \in 0..(TableTotalUSD(summaryProps.costs) \div 10 + 1) :
            /\ Nearest(k, TableTotalUSD(summaryProps.costs))
            /\ summaryResult.text[Len(summaryResult.text) - 1] = ToString(k)

----------------------------------------------------------------------------
(* Further claims about the object URLs and the loading flag (Spec) *)

\* C25: after any sequence of submissions and start-over actions, once the
\* state is rendered, at most one object URL created for an original image
\* is unrevoked, and it is the one of the displayed original image.
C25_OneOriginalUrlLive ==
    Committed =>
        /\ Cardinality(liveUrls) <= 1
        /\ liveUrls # {} => (Truthy(originalImage) /\ liveUrls = {originalImage.url})

----------------------------------------------------------------------------
(* Further claims about the narration (SpecNarration) *)

\* a synthesis request completes whose narration session has been discarded
DiscardedCompletes ==
    \E r \in 1..Len(ttsRequests) :
        /\ ttsRequests[r].outcome = Pending
        /\ ttsRequests'[r].outcome # Pending
        /\ ~Live(ttsRequests[r].session)

\* C26: when the analysis is discarded while a synthesis request of its
\* narration session is in flight, the later completion of that request
\* creates no audio handle and starts no playback; an Audio element only
\* ever plays for the session on display.
C26_DiscardedCompletionIsSilent ==
    [][/\ DiscardedCompletes => audios' = audios
       /\ \A a \in 1..Len(audios') :
             (audios'[a].playing /\ (a > Len(audios) \/ ~audios[a].playing)) =>
                 (panelProps' # Null /\ audios'[a].session = sessions')]_vars

\* the step stays within the narration session on display
SameSession == panelProps # Null /\ panelProps' # Null /\ sessions' = sessions

\* a synthesis of the session on display has succeeded
SynthesisSucceeded ==
    \E r \in 1..Len(ttsRequests) :
        ttsRequests[r].session = sessions /\ ttsRequests[r].outcome.status = "fulfilled"

\* C30: in a narration session playbackState playing implies that an audio
\* handle is cached; a cached handle is never replaced or cleared while the
\* session lasts; after one successful synthesis no further synthesis request
\* is issued in the session.
C30_CachedHandleIsKept ==
    [][/\ playbackState' = "playing" => Truthy(audioPlayer')
       /\ (SameSession /\ Truthy(audioPlayer)) => audioPlayer' = audioPlayer
       /\ (SameSession /\ SynthesisSucceeded) => Len(ttsRequests') = Len(ttsRequests)]_vars

\* handleAnalyze of some call runs from its await to its end
SomeJoin == \E i \in 1..Len(calls) : Join(i)

\* C28: the loading flag is true from the start of a handleAnalyze until its
\* two generation requests have settled and the call has run to its end, it
\* is false once the call has ended (whether both succeed, one fails or both
\* fail), and while it is true the rendered view is the loading view, neither
\* the results view, the error view nor the input view.
C28_LoadingWhileRequestsRun ==
    [][/\ Awaiting' # {} => isLoading'
       /\ SomeJoin => ~isLoading'
       /\ (isLoading' /\ Committed') => rendered'.view = "loading"]_vars

\* one of the two generation requests of call i failed
SomeRequestFailed(i) ==
    calls[i].analysis.status = "rejected" \/ calls[i].preview.status = "rejected"

\* C29: in the state reached when a handleAnalyze call has completed, the
\* error is non-empty if and only if one of the call's two generation requests
\* failed; and when the error is empty, the annotated image, the repaired
\* image, the cost data and the vehicle info are all set, from the results of
\* that call.
C29_ErrorIffARequestFailed ==
    [][\A i \in 1..Len(calls) : Join(i) =>
          /\ Truthy(error') <=> SomeRequestFailed(i)
          /\ (~Truthy(error') /\ ~SomeRequestFailed(i)) =>
                /\ Truthy(annotatedImage')
                /\ annotatedImage' = calls[i].analysis.value.annotatedImage
                /\ Truthy(repairedImage')
                /\ repairedImage' = calls[i].preview.value
                /\ Truthy(costData')
                /\ costData' = Get(calls[i].analysis.value.analysis, "costs")
                /\ Truthy(vehicleInfo')
                /\ vehicleInfo' = Get(calls[i].analysis.value.analysis, "vehicle")]_vars

====
